---- MODULE Spec2Model ----
(***************************************************************************)
(* JavaApolloAndroidVisitor (packages/plugins/java/apollo-android/src/     *)
(* visitor.ts): the visitor that turns one GraphQL input-object-type       *)
(* definition into the source of a Java class, and accumulates the imports *)
(* the class needs in the instance-scoped set _imports.                    *)
(*                                                                         *)
(* Generated text is modelled as sequences of tokens (strings), so that    *)
(* "the text contains X" is a statement about the tokens.  A helper that   *)
(* touches _imports or may throw is an operator from the import set on    *)
(* entry to a record [imp, threw, out]: the import set on exit, whether a  *)
(* TypeError escaped, and the returned text.                               *)
(***************************************************************************)
EXTENDS Integers, Sequences, FiniteSets, TLC

VARIABLES
    _imports,   \* the visitor's Set<string>, in insertion order
    result,     \* outcome of the last InputObjectTypeDefinition call
    snapshots,  \* history: _imports on entry to the last call and after each helper
    returned,   \* what the last read of the `imports` getter returned
    calls,      \* number of InputObjectTypeDefinition calls made on this instance
    probe       \* outcome of the last direct getFieldWriterCall evaluation

vars == <<_imports, result, snapshots, returned, calls, probe>>

(***************************************************************************)
(* Bounds of the model.                                                    *)
(***************************************************************************)
MaxFields == 3

MaxReuseFields == 1

MaxCalls == 2

(***************************************************************************)
(* Generic helpers.                                                        *)
(***************************************************************************)
Range(s) == {s[i] : i \in 1..Len(s)}

Includes(tokens, t) == \E i \in 1..Len(tokens) : tokens[i] = t

Undefined == [kind |-> "undefined"]

Quote(s) == "\"" \o s \o "\""

\* Faulty variant of SetAdd: an array push, with no membership test.
SetAddAlways(imp, x) == Append(imp, x)

\* Set.prototype.add: a value already in the set is not inserted again.
SetAdd(imp, x) == IF x \in Range(imp) THEN imp ELSE Append(imp, x)

Ok(imp, out) == [imp |-> imp, threw |-> FALSE, out |-> out]

Threw(imp) == [imp |-> imp, threw |-> TRUE, out |-> <<>>]

\* One element of fields.map(f), where f reads and updates the import set and
\* may throw: prev is the traversal so far, r the outcome of f on the next
\* element.  A throw ends the traversal and discards the mapped array.
Step(prev, r) ==
    IF prev.threw THEN prev
    ELSE IF r.threw THEN Threw(r.imp)
    ELSE Ok(r.imp, Append(prev.out, r.out))

(***************************************************************************)
(* The type grammar and the schema.                                        *)
(***************************************************************************)
NamedType(n) == [kind |-> "NamedType", name |-> n]

ListType(t) == [kind |-> "ListType", type |-> t]

NonNullType(t) == [kind |-> "NonNullType", type |-> t]

\* The schema's type map: name -> kind of the named type.
SchemaTypes ==
    [n \in {"ID", "String", "Int", "Boolean", "Float"} |-> "scalar"]
    @@ [n \in {"Date", "constructor"} |-> "scalar"]
    @@ [n \in {"Color"} |-> "enum"]
    @@ [n \in {"OtherInput", "SubFilter"} |-> "input"]

\* A name no type of the schema has.
UnknownTypeName == "Ghost"

getType(name) ==
    IF name \in DOMAIN SchemaTypes
    THEN [kind |-> SchemaTypes[name], name |-> name]
    ELSE Undefined

isScalarType(t) == t.kind = "scalar"

isInputObjectType(t) == t.kind = "input"

isEnumType(t) == t.kind = "enum"

RECURSIVE getBaseTypeNode(_)
getBaseTypeNode(type) ==
    IF type.kind \in {"ListType", "NonNullType"}
    THEN getBaseTypeNode(type.type)
    ELSE type

RECURSIVE wrapTypeWithModifiers(_, _, _)
wrapTypeWithModifiers(baseType, type, listType) ==
    IF type.kind = "NonNullType"
    THEN wrapTypeWithModifiers(baseType, type.type, listType)
    ELSE IF type.kind = "ListType"
    THEN <<listType \o "<">> \o wrapTypeWithModifiers(baseType, type.type, listType) \o <<">">>
    ELSE baseType

(***************************************************************************)
(* Configuration and lookup tables.                                        *)
(***************************************************************************)
package == "com.app"

\* config.scalars: JAVA_SCALARS with ID overridden to String.
scalars ==
    [ID |-> "String", String |-> "String", Int |-> "Integer",
     Boolean |-> "Boolean", Float |-> "Float"]

ImportsTable ==
    [String |-> "java.lang.String", Integer |-> "java.lang.Integer",
     Boolean |-> "java.lang.Boolean", Float |-> "java.lang.Float",
     Object |-> "java.lang.Object",
     List |-> "java.util.List", IOException |-> "java.io.IOException",
     NonNull |-> "javax.annotation.Nonnull", Nullable |-> "javax.annotation.Nullable",
     Override |-> "java.lang.Override", Generated |-> "javax.annotation.Generated",
     Input |-> "com.apollographql.apollo.api.Input",
     InputType |-> "com.apollographql.apollo.api.InputType",
     InputFieldWriter |-> "com.apollographql.apollo.api.InputFieldWriter",
     InputFieldMarshaller |-> "com.apollographql.apollo.api.InputFieldMarshaller",
     Utils |-> "com.apollographql.apollo.api.internal.Utils"]

Imports(key) == IF key \in DOMAIN ImportsTable THEN ImportsTable[key] ELSE ""

SCALAR_TO_WRITER_METHOD ==
    [ID |-> "writeString", String |-> "writeString", Int |-> "writeInt",
     Boolean |-> "writeBoolean", Float |-> "writeDouble"]

\* Members every object literal inherits from Object.prototype: indexing the
\* literal with one of these names yields the inherited function, not undefined.
ObjectPrototypeMembers ==
    {"constructor", "toString", "valueOf", "hasOwnProperty", "isPrototypeOf",
     "propertyIsEnumerable", "toLocaleString"}

\* SCALAR_TO_WRITER_METHOD[name] || 'writeCustom', as interpolated into the text.
scalarWriterMethod(name) ==
    IF name \in DOMAIN SCALAR_TO_WRITER_METHOD THEN SCALAR_TO_WRITER_METHOD[name]
    ELSE IF name \in ObjectPrototypeMembers
    THEN "function " \o (IF name = "constructor" THEN "Object" ELSE name) \o "() { [native code] }"
    ELSE "writeCustom"

(***************************************************************************)
(* The `imports` getter.                                                   *)
(***************************************************************************)
imports == [i \in 1..Len(_imports) |-> "import " \o _imports[i] \o ";"]

(***************************************************************************)
(* Type resolver and field declarations.                                   *)
(***************************************************************************)
isNonNullField(field) == field.type.kind = "NonNullType"

isArrayField(field) ==
    \/ field.type.kind = "ListType"
    \/ (field.type.kind = "NonNullType" /\ field.type.type.kind = "ListType")

\* getActualType from its second statement on, for a schemaType that is defined.
resolvedType(imp, schemaType, type, wrap) ==
    LET scalar == IF schemaType.name \in DOMAIN scalars
                  THEN scalars[schemaType.name] ELSE "Object"
        imp1 == IF isScalarType(schemaType)
                THEN (IF Imports(scalar) # "" THEN SetAdd(imp, Imports(scalar)) ELSE imp)
                ELSE IF isInputObjectType(schemaType)
                THEN SetAdd(imp, package \o "." \o schemaType.name)
                ELSE imp
        typeToUse == IF isScalarType(schemaType) THEN scalar ELSE schemaType.name
        res == IF wrap THEN wrapTypeWithModifiers(<<typeToUse>>, type, "List")
               ELSE <<typeToUse>>
        imp2 == IF Includes(res, "List<") THEN SetAdd(imp1, Imports("List")) ELSE imp1
    IN  Ok(imp2, res)

\* Faulty variant of getActualType: an unresolved name is used as the type's name.
getActualTypeLenient(imp, type, wrap) ==
    IF getType(getBaseTypeNode(type).name) = Undefined
    THEN Ok(imp, IF wrap
                 THEN wrapTypeWithModifiers(<<getBaseTypeNode(type).name>>, type, "List")
                 ELSE <<getBaseTypeNode(type).name>>)
    ELSE resolvedType(imp, getType(getBaseTypeNode(type).name), type, wrap)

getActualType(imp, type, wrap) ==
    IF getType(getBaseTypeNode(type).name) = Undefined
    THEN Threw(imp)   \* schemaType.name: TypeError, schemaType is undefined
    ELSE resolvedType(imp, getType(getBaseTypeNode(type).name), type, wrap)

\* getFieldWithTypePrefix after its call of getActualType, which gave t.
fieldDeclaration(t, field, withInputWrapperWhenNeeded) ==
    IF t.threw THEN Threw(t.imp)
    ELSE IF isNonNullField(field)
    THEN Ok(SetAdd(t.imp, Imports("NonNull")), <<"@Nonnull">> \o t.out \o <<field.name>>)
    ELSE IF withInputWrapperWhenNeeded
    THEN Ok(t.imp, <<"Input<">> \o t.out \o <<">", field.name>>)
    ELSE Ok(t.imp, t.out \o <<field.name>>)

\* Faulty variant of getFieldWithTypePrefix: the wrapper is never applied.
getFieldWithTypePrefixBare(imp, field, withInputWrapperWhenNeeded) ==
    fieldDeclaration(getActualType(SetAdd(imp, Imports("Input")), field.type, TRUE),
                     field, FALSE)

getFieldWithTypePrefix(imp, field, withInputWrapperWhenNeeded) ==
    fieldDeclaration(getActualType(SetAdd(imp, Imports("Input")), field.type, TRUE),
                     field, withInputWrapperWhenNeeded)

(***************************************************************************)
(* Declaration emitter: private fields, constructor, getters.              *)
(***************************************************************************)
privateFieldOf(imp, field) ==
    LET fieldType == getFieldWithTypePrefix(imp, field, TRUE)
    IN  IF fieldType.threw THEN fieldType
        ELSE Ok(fieldType.imp, <<"private", "final">> \o fieldType.out \o <<";">>)

RECURSIVE privateFieldsFrom(_, _, _)
privateFieldsFrom(st, fields, i) ==
    IF st.threw \/ i > Len(fields) THEN st
    ELSE privateFieldsFrom(Step(st, privateFieldOf(st.imp, fields[i])), fields, i + 1)

buildInputPrivateFields(imp, fields) == privateFieldsFrom(Ok(imp, <<>>), fields, 1)

RECURSIVE mappedFieldsFrom(_, _, _)
mappedFieldsFrom(st, fields, i) ==
    IF st.threw \/ i > Len(fields) THEN st
    ELSE mappedFieldsFrom(Step(st, getFieldWithTypePrefix(st.imp, fields[i], TRUE)),
                          fields, i + 1)

buildInputCtor(imp, className, fields) ==
    LET mappedFields == mappedFieldsFrom(Ok(imp, <<>>), fields, 1)
    IN  IF mappedFields.threw THEN mappedFields
        ELSE Ok(mappedFields.imp,
                [name |-> className,
                 params |-> mappedFields.out,
                 body |-> [i \in 1..Len(fields) |->
                             <<"this." \o fields[i].name, "=", fields[i].name, ";">>]])

getterOf(imp, field) ==
    LET fieldType == getFieldWithTypePrefix(imp, field, TRUE)
        isNullable == field.type.kind # "NonNullType"
    IN  IF fieldType.threw THEN fieldType
        ELSE Ok(IF isNullable THEN SetAdd(fieldType.imp, Imports("Nullable"))
                ELSE fieldType.imp,
                <<"public">> \o (IF isNullable THEN <<"@Nullable">> ELSE <<>>)
                \o fieldType.out
                \o <<"()", "{", "return", "this." \o field.name, ";", "}">>)

RECURSIVE gettersFrom(_, _, _)
gettersFrom(st, fields, i) ==
    IF st.threw \/ i > Len(fields) THEN st
    ELSE gettersFrom(Step(st, getterOf(st.imp, fields[i])), fields, i + 1)

\* Faulty variant of buildInputGetters: the first field gets no getter.
buildInputGettersAfterFirst(imp, fields) == gettersFrom(Ok(imp, <<>>), fields, 2)

buildInputGetters(imp, fields) == gettersFrom(Ok(imp, <<>>), fields, 1)

(***************************************************************************)
(* Marshaller emitter.                                                     *)
(***************************************************************************)
getFieldWriterCall(field, listItemCall) ==
    LET baseType == getBaseTypeNode(field.type)
        schemaType == getType(baseType.name)
        isNonNull == isNonNullField(field)
        writerMethod == IF isScalarType(schemaType) THEN scalarWriterMethod(schemaType.name)
                        ELSE IF isEnumType(schemaType) THEN "writeString"
                        ELSE "null"
    IN  IF (~isScalarType(schemaType)) /\ isInputObjectType(schemaType)
        THEN IF listItemCall
             THEN <<"writeObject", "(", "$item", ".marshaller()", ")">>
             ELSE <<"writeObject", "(", Quote(field.name), ",",
                    field.name, ".value", "!=", "null", "?",
                    field.name, ".value", ".marshaller()", ":", "null", ")">>
        ELSE IF listItemCall
             THEN <<writerMethod, "(", "$item", ")">>
             ELSE <<writerMethod, "(", Quote(field.name), ",", field.name>>
                  \o (IF isNonNull THEN <<>> ELSE <<".value">>) \o <<")">>

buildFieldsMarshaller(imp, field) ==
    LET isNonNull == isNonNullField(field)
        isArray == isArrayField(field)
        call == getFieldWriterCall(field, isArray)
        listItemType == getActualType(imp, field.type, FALSE)
        res == IF isArray
               THEN <<"writer", ".", "writeList", "(", Quote(field.name), ",",
                      field.name, ".value", "!=", "null", "?",
                      "new", "InputFieldWriter.ListWriter()", "{",
                      "@Override", "public", "void", "write",
                      "(", "InputFieldWriter.ListItemWriter", "listItemWriter", ")",
                      "throws", "IOException", "{",
                      "for", "(">> \o listItemType.out
                    \o <<"$item", ":", field.name, ".value", ")", "{",
                         "listItemWriter", ".">> \o call
                    \o <<";", "}", "}", "}", ":", "null", ")", ";">>
               ELSE <<"writer", ".">> \o call \o <<";">>
    IN  IF listItemType.threw THEN listItemType
        ELSE IF isNonNull THEN Ok(listItemType.imp, res)
        ELSE Ok(listItemType.imp,
                <<"if", "(", field.name, ".defined", ")", "{">> \o res \o <<"}">>)

RECURSIVE marshallersFrom(_, _, _)
marshallersFrom(st, fields, i) ==
    IF st.threw \/ i > Len(fields) THEN st
    ELSE marshallersFrom(Step(st, buildFieldsMarshaller(st.imp, fields[i])), fields, i + 1)

buildMarshallerOverride(imp, fields) ==
    LET imp4 == SetAdd(SetAdd(SetAdd(SetAdd(imp, Imports("Override")),
                    Imports("IOException")), Imports("InputFieldWriter")),
                    Imports("InputFieldMarshaller"))
        allMarshallers == marshallersFrom(Ok(imp4, <<>>), fields, 1)
    IN  IF allMarshallers.threw THEN allMarshallers
        ELSE Ok(allMarshallers.imp,
                [head |-> <<"@Override", "public", "InputFieldMarshaller", "marshaller()", "{",
                            "return", "new", "InputFieldMarshaller()", "{",
                            "@Override", "public", "void", "marshal",
                            "(", "InputFieldWriter", "writer", ")",
                            "throws", "IOException", "{">>,
                 statements |-> allMarshallers.out,
                 tail |-> <<"}", "}", ";", "}">>])

(***************************************************************************)
(* Builder emitter.                                                        *)
(***************************************************************************)
builderPrivateFieldOf(imp, field) ==
    LET fieldType == getFieldWithTypePrefix(imp, field, TRUE)
        isNonNull == isNonNullField(field)
    IN  IF fieldType.threw THEN fieldType
        ELSE Ok(fieldType.imp,
                <<"private">> \o fieldType.out
                \o (IF isNonNull THEN <<>> ELSE <<"=", "Input.absent()">>) \o <<";">>)

RECURSIVE builderPrivateFieldsFrom(_, _, _)
builderPrivateFieldsFrom(st, fields, i) ==
    IF st.threw \/ i > Len(fields) THEN st
    ELSE builderPrivateFieldsFrom(Step(st, builderPrivateFieldOf(st.imp, fields[i])),
                                  fields, i + 1)

setterOf(imp, field) ==
    LET fieldType == getFieldWithTypePrefix(imp, field, FALSE)
        isNonNull == isNonNullField(field)
    IN  IF fieldType.threw THEN fieldType
        ELSE Ok(fieldType.imp,
                <<"public", "Builder", field.name, "(">>
                \o (IF isNonNull THEN <<>> ELSE <<"@Nullable">>) \o fieldType.out
                \o <<")", "{", "this." \o field.name, "=">>
                \o (IF isNonNull THEN <<field.name>>
                    ELSE <<"Input.fromNullable", "(", field.name, ")">>)
                \o <<";", "return", "this", ";", "}">>)

RECURSIVE settersFrom(_, _, _)
settersFrom(st, fields, i) ==
    IF st.threw \/ i > Len(fields) THEN st
    ELSE settersFrom(Step(st, setterOf(st.imp, fields[i])), fields, i + 1)

\* Faulty variant of nonNullFieldsOf: no filter, every field is null-checked.
nonNullFieldsOfUnfiltered(fields) == fields

\* fields.filter(f => f.type.kind === Kind.NON_NULL_TYPE)
nonNullFieldsOf(fields) == SelectSeq(fields, isNonNullField)

checkNotNullOf(nnField) ==
    <<"Utils.checkNotNull", "(", nnField.name, ",", Quote(nnField.name \o " == null"), ")", ";">>

buildFn(className, fields) ==
    LET nn == nonNullFieldsOf(fields)
    IN  <<  <<"public", className, "build()", "{">>  >>
        \o [i \in 1..Len(nn) |-> checkNotNullOf(nn[i])]
        \o << <<"return", "new", className, "(">>
               \o [i \in 1..Len(fields) |-> fields[i].name] \o <<")", ";">> >>
        \o <<  <<"}">>  >>

\* The setters, built after the builder's private fields pf.
settersAfter(pf, fields) ==
    IF pf.threw THEN pf
    ELSE Step(Ok(pf.imp, <<pf.out>>), settersFrom(Ok(pf.imp, <<>>), fields, 1))

\* The Builder's JavaDeclarationBlock around body; parts holds the private
\* fields and the setters.  Every null-check of build() adds the Utils import.
builderBlock(parts, className, fields) ==
    IF parts.threw THEN parts
    ELSE Ok(IF nonNullFieldsOf(fields) # <<>>
            THEN SetAdd(parts.imp, Imports("Utils")) ELSE parts.imp,
            [name |-> "Builder",
             modifiers |-> <<"public", "final", "static", "class">>,
             privateFields |-> parts.out[1],
             ctor |-> <<"Builder", "()", "{", "}">>,
             setters |-> parts.out[2],
             build |-> buildFn(className, fields)])

buildBuilderNestedClass(imp, className, fields) ==
    builderBlock(settersAfter(builderPrivateFieldsFrom(Ok(imp, <<>>), fields, 1), fields),
                 className, fields)

(***************************************************************************)
(* The visitor's entry point and its state.                                *)
(***************************************************************************)
NoResult == [kind |-> "none"]

\* The body of InputObjectTypeDefinition is a sequence of helper calls on the
\* shared import set.  st is the run so far: the import set, whether a helper
\* threw, the import set after each helper (steps) and the texts built (parts).
\* Faulty variant of Start: the import set is cleared when a class begins.
StartCleared(imp) ==
    LET imp0 == SetAdd(SetAdd(<<>>, Imports("InputType")), Imports("Generated"))
    IN  [imp |-> imp0, threw |-> FALSE, steps |-> <<imp, imp0>>, parts |-> <<>>]

Start(imp) ==
    LET imp0 == SetAdd(SetAdd(imp, Imports("InputType")), Imports("Generated"))
    IN  [imp |-> imp0, threw |-> FALSE, steps |-> <<imp, imp0>>, parts |-> <<>>]

\* A helper that is not reached because an earlier one threw.
Skip(st) == [st EXCEPT !.steps = Append(st.steps, st.imp)]

Emit(st, r) ==
    [imp |-> r.imp, threw |-> r.threw, steps |-> Append(st.steps, r.imp),
     parts |-> IF r.threw THEN st.parts ELSE Append(st.parts, r.out)]

withPrivateFields(st, node) ==
    IF st.threw THEN Skip(st) ELSE Emit(st, buildInputPrivateFields(st.imp, node.fields))

withCtor(st, node) ==
    IF st.threw THEN Skip(st) ELSE Emit(st, buildInputCtor(st.imp, node.name, node.fields))

withGetters(st, node) ==
    IF st.threw THEN Skip(st) ELSE Emit(st, buildInputGetters(st.imp, node.fields))

withMarshallerOverride(st, node) ==
    IF st.threw THEN Skip(st) ELSE Emit(st, buildMarshallerOverride(st.imp, node.fields))

withBuilderClass(st, node) ==
    IF st.threw THEN Skip(st)
    ELSE Emit(st, buildBuilderNestedClass(st.imp, node.name, node.fields))

\* The JavaDeclarationBlock of the class, around classBlock.
classText(st, node) ==
    [annotations |-> <<"Generated(\"Apollo GraphQL\")">>,
     modifiers |-> <<"public", "final", "class">>,
     name |-> node.name,
     implements |-> <<"InputType">>,
     privateFields |-> st.parts[1],
     ctor |-> st.parts[2],
     getters |-> st.parts[3],
     builderGetter |-> <<"public", "static", "Builder", "builder()", "{",
                         "return", "new", "Builder()", ";", "}">>,
     marshallerOverride |-> st.parts[4],
     builderClass |-> st.parts[5]]

generate(imp, node) ==
    withBuilderClass(
        withMarshallerOverride(
            withGetters(
                withCtor(
                    withPrivateFields(Start(imp), node), node), node), node), node)

outcome(st, node) ==
    IF st.threw THEN [kind |-> "threw", node |-> node]
    ELSE [kind |-> "returned", node |-> node, text |-> classText(st, node)]

Init ==
    /\ _imports = <<>>
    /\ result = NoResult
    /\ snapshots = <<>>
    /\ returned = <<>>
    /\ calls = 0
    /\ probe = NoResult

\* The visitor's state after a call on node that ran as g.
Commit(g, node) ==
    /\ _imports' = g.imp
    /\ snapshots' = g.steps
    /\ result' = outcome(g, node)
    /\ calls' = calls + 1
    /\ UNCHANGED <<returned, probe>>

InputObjectTypeDefinition(node) == Commit(generate(_imports, node), node)

ReadImports ==
    /\ returned' = imports
    /\ UNCHANGED <<_imports, result, snapshots, calls, probe>>

WriterCall(field) ==
    /\ probe' = [kind |-> "call", field |-> field,
                 named |-> getFieldWriterCall(field, FALSE),
                 item |-> getFieldWriterCall(field, TRUE)]
    /\ UNCHANGED <<_imports, result, snapshots, returned, calls>>

(***************************************************************************)
(* Inputs.                                                                 *)
(***************************************************************************)
FieldNames == <<"id", "tags", "ref", "name", "limit", "nested">>

\* T, T!, [T], [T]!
Shapes(base) ==
    {NamedType(base), NonNullType(NamedType(base)),
     ListType(NamedType(base)), NonNullType(ListType(NamedType(base)))}

\* [T!], [T!]!
InnerNonNullShapes(base) ==
    {ListType(NonNullType(NamedType(base))),
     NonNullType(ListType(NonNullType(NamedType(base))))}

ClassBases == {"String", "Date", "Color", "OtherInput", UnknownTypeName}

ClassTypes == UNION {Shapes(b) : b \in ClassBases} \cup {NonNullType(NamedType("ID"))}

ReuseTypes ==
    Shapes("OtherInput") \cup {NonNullType(NamedType("String")), NamedType("Color"),
                               ListType(NamedType("Date")), NamedType(UnknownTypeName)}

\* The definition node of a type named Filter with the fields of types ts.
NodeOf(ts) ==
    [name |-> "Filter",
     fields |-> [i \in 1..Len(ts) |-> [name |-> FieldNames[i], type |-> ts[i]]]]

WriterFields ==
    {[name |-> n, type |-> t] :
        n \in {"ref", "tags"},
        t \in UNION {Shapes(b) \cup InnerNonNullShapes(b)
                     : b \in DOMAIN SchemaTypes \cup {UnknownTypeName}}}

(***************************************************************************)
(* Specifications.                                                         *)
(***************************************************************************)
\* One generation unit: a fresh visitor generates one class.
Next ==
    \/ /\ calls = 0
       /\ \E n \in 0..MaxFields : \E ts \in [1..n -> ClassTypes] :
             InputObjectTypeDefinition(NodeOf(ts))
    \/ ReadImports

Spec == Init /\ [][Next]_vars

\* One visitor instance reused for several definitions.
NextReuse ==
    \/ /\ calls < MaxCalls
       /\ \E n \in 0..MaxReuseFields : \E ts \in [1..n -> ReuseTypes] :
             InputObjectTypeDefinition(NodeOf(ts))
    \/ ReadImports

SpecReuse == Init /\ [][NextReuse]_vars

\* The writer-call selection on its own, for every field shape.
NextWriter == \E field \in WriterFields : WriterCall(field)

SpecWriter == Init /\ [][NextWriter]_vars

(***************************************************************************)
(* Vocabulary of the properties.                                           *)
(***************************************************************************)
Returned == result.kind = "returned"

Called == result.kind \in {"returned", "threw"}

Required(f) == f.type.kind = "NonNullType"

Optional(f) == f.type.kind \in {"NamedType", "ListType"}

ListValued(f) ==
    \/ f.type.kind = "ListType"
    \/ (f.type.kind = "NonNullType" /\ f.type.type.kind = "ListType")

RECURSIVE BaseName(_)
BaseName(t) == IF t.kind = "NamedType" THEN t.name ELSE BaseName(t.type)

KindOfBase(f) ==
    IF BaseName(f.type) \in DOMAIN SchemaTypes THEN SchemaTypes[BaseName(f.type)]
    ELSE "unresolved"

Last(seq) == seq[Len(seq)]

\* pattern occurs in tokens as a contiguous run
HasRun(tokens, pattern) ==
    \E i \in 0..(Len(tokens) - Len(pattern)) :
        \A j \in 1..Len(pattern) : tokens[i + j] = pattern[j]

NoDuplicates(seq) == \A i, j \in 1..Len(seq) : seq[i] = seq[j] => i = j

Guard(name) == <<"if", "(", name, ".defined", ")", "{">>

(***************************************************************************)
(* Properties of the writer-call selection (SpecWriter).                   *)
(***************************************************************************)
\* C1: for a non-list field whose base type is an input object, the writer
\* call is writeObject("f", f.marshaller()) when the field is non-null and
\* writeObject("f", f.value != null ? f.value.marshaller() : null) when it
\* is optional.
C1_ObjectWriterCallFollowsNullability ==
    (probe.kind = "call" /\ KindOfBase(probe.field) = "input" /\ ~ListValued(probe.field)) =>
        LET f == probe.field.name
        IN  probe.named =
              IF Required(probe.field)
              THEN <<"writeObject", "(", Quote(f), ",", f, ".marshaller()", ")">>
              ELSE <<"writeObject", "(", Quote(f), ",", f, ".value", "!=", "null", "?",
                     f, ".value", ".marshaller()", ":", "null", ")">>

\* The writer method the table of the marshaller gives a resolved base type.
TableWriterMethod(f) ==
    CASE KindOfBase(f) = "input" -> "writeObject"
      [] KindOfBase(f) = "enum" -> "writeString"
      [] BaseName(f.type) \in {"ID", "String"} -> "writeString"
      [] BaseName(f.type) = "Int" -> "writeInt"
      [] BaseName(f.type) = "Boolean" -> "writeBoolean"
      [] BaseName(f.type) = "Float" -> "writeDouble"
      [] OTHER -> "writeCustom"

\* C2: the writer method depends on the base type only and is the one of the
\* table (ID, String -> writeString; Int -> writeInt; Boolean -> writeBoolean;
\* Float -> writeDouble; any other scalar -> writeCustom; enum -> writeString;
\* input object -> writeObject), the same in the named form (name and value)
\* and in the list-item form (the item only).
C2_WriterMethodFollowsTable ==
    (probe.kind = "call" /\ KindOfBase(probe.field) # "unresolved") =>
        /\ probe.named[1] = TableWriterMethod(probe.field)
        /\ probe.item[1] = TableWriterMethod(probe.field)
        /\ HasRun(probe.named, <<"(", Quote(probe.field.name), ",", probe.field.name>>)
        /\ HasRun(probe.item, <<"(", "$item">>)
        /\ ~HasRun(probe.item, <<Quote(probe.field.name)>>)

(***************************************************************************)
(* Properties of one generated class (Spec).                               *)
(***************************************************************************)
\* C3: a returned class has one getter, one constructor parameter, one
\* builder setter and one marshaller statement per field, each in
\* declaration order, and the i-th marshaller statement is wrapped in
\* if(f.defined) { ... } exactly when the i-th field is optional.
C3_OneMemberPerFieldInOrder ==
    Returned =>
        LET f == result.node.fields
            t == result.text
            st == t.marshallerOverride.statements
        IN  /\ Len(t.getters) = Len(f)
            /\ Len(t.ctor.params) = Len(f)
            /\ Len(t.ctor.body) = Len(f)
            /\ Len(t.builderClass.setters) = Len(f)
            /\ Len(st) = Len(f)
            /\ \A i \in 1..Len(f) :
                 /\ HasRun(t.getters[i], <<f[i].name, "()", "{", "return", "this." \o f[i].name>>)
                 /\ Last(t.ctor.params[i]) = f[i].name
                 /\ t.ctor.body[i] = <<"this." \o f[i].name, "=", f[i].name, ";">>
                 /\ SubSeq(t.builderClass.setters[i], 1, 4) = <<"public", "Builder", f[i].name, "(">>
                 /\ HasRun(st[i], <<"(", Quote(f[i].name), ",">>)
                 /\ Optional(f[i]) =>
                       /\ SubSeq(st[i], 1, 6) = Guard(f[i].name)
                       /\ Last(st[i]) = "}"
                       /\ st[i][7] = "writer"
                 /\ Required(f[i]) =>
                       /\ st[i][1] = "writer"
                       /\ ~HasRun(st[i], <<".defined">>)

\* The scenario Filter { String!, scalar, input object }.
C3_Witness ==
    /\ Returned
    /\ Len(result.node.fields) = 3
    /\ result.node.fields[1].type = NonNullType(NamedType("String"))
    /\ result.node.fields[2].type = NamedType("Date")
    /\ result.node.fields[3].type = NamedType("OtherInput")
    /\ result.text.marshallerOverride.statements[1][3] = "writeString"
    /\ result.text.marshallerOverride.statements[2][9] = "writeCustom"
    /\ result.text.marshallerOverride.statements[3][9] = "writeObject"

CheckLine(name) ==
    <<"Utils.checkNotNull", "(", name, ",", Quote(name \o " == null"), ")", ";">>

\* build(), run on a builder on which exactly the setters of the fields in
\* set were called with a value: a null-check reached before the return
\* finds its field null.
BuildThrows(b, set) ==
    \E k \in 1..Len(b) :
        /\ b[k][1] = "Utils.checkNotNull"
        /\ b[k][3] \notin set
        /\ \A r \in 1..(k - 1) : b[r][1] # "return"

\* C4: build() null-checks every required field and no optional one, with a
\* message naming the field, every null-check comes before the constructor
\* invocation, and the constructor is invoked with all fields in declaration
\* order, the order of the constructor's parameters; so build() fails
\* exactly when the setter of some required field was not called.
C4_BuildChecksRequiredThenConstructs ==
    Returned =>
        LET f == result.node.fields
            t == result.text
            b == t.builderClass.build
            checks == {k \in 1..Len(b) : b[k][1] = "Utils.checkNotNull"}
            news == {k \in 1..Len(b) : HasRun(b[k], <<"new", t.name>>)}
        IN  /\ \A i \in 1..Len(f) :
                 Required(f[i]) <=> (\E k \in checks : b[k] = CheckLine(f[i].name))
            /\ \A k \in checks : \E i \in 1..Len(f) :
                 Required(f[i]) /\ b[k] = CheckLine(f[i].name)
            /\ Cardinality(news) = 1
            /\ \A k \in checks : \A r \in news : k < r
            /\ \A r \in news :
                 b[r] = <<"return", "new", t.name, "(">>
                        \o [i \in 1..Len(f) |-> f[i].name] \o <<")", ";">>
            /\ \A i \in 1..Len(f) : Last(t.ctor.params[i]) = f[i].name
            /\ \A set \in SUBSET {f[i].name : i \in 1..Len(f)} :
                 BuildThrows(b, set) <=>
                     (\E i \in 1..Len(f) : Required(f[i]) /\ f[i].name \notin set)

\* The class of { id: ID!, tags: [String], ref: OtherInput }.
C4_Witness ==
    /\ Returned
    /\ Len(result.node.fields) = 3
    /\ result.node.fields[1].type = NonNullType(NamedType("ID"))
    /\ result.node.fields[2].type = ListType(NamedType("String"))
    /\ result.node.fields[3].type = NamedType("OtherInput")
    /\ result.text.builderClass.build[2] = CheckLine("id")
    /\ Len(result.text.builderClass.build) = 4
    /\ BuildThrows(result.text.builderClass.build, {"tags", "ref"})
    /\ ~BuildThrows(result.text.builderClass.build, {"id"})

InputImport(T) == "import " \o package \o "." \o T \o ";"

\* C5: the import list never holds an import twice, and after a class is
\* generated the import of every input-object type a field has is in it
\* exactly once.
C5_EachImportOnce ==
    /\ NoDuplicates(imports)
    /\ NoDuplicates(returned)
    /\ Returned =>
          \A i \in 1..Len(result.node.fields) :
              KindOfBase(result.node.fields[i]) = "input" =>
                  Cardinality({k \in 1..Len(imports) :
                      imports[k] = InputImport(BaseName(result.node.fields[i].type))}) = 1

\* The import list has been read after a class with three fields of the same
\* input-object type was generated.
C5_Witness ==
    /\ Returned
    /\ Len(result.node.fields) = 3
    /\ \A i \in 1..3 : BaseName(result.node.fields[i].type) = "OtherInput"
    /\ returned = imports
    /\ \E k \in 1..Len(returned) : returned[k] = InputImport("OtherInput")

HasImport(key) == \E k \in 1..Len(_imports) : _imports[k] = ImportsTable[key]

\* C6: on a fresh visitor, after one class is generated, every import is one
\* the class needs: Input only when some field is optional, the not-null
\* annotation and Utils only when some field is required, List only when
\* some field is list-valued, an input-object import only when some field
\* has that type.
C6_EveryImportIsNeeded ==
    (Returned /\ calls = 1) =>
        LET f == result.node.fields
        IN  /\ HasImport("Input") => \E i \in 1..Len(f) : Optional(f[i])
            /\ HasImport("NonNull") => \E i \in 1..Len(f) : Required(f[i])
            /\ HasImport("Utils") => \E i \in 1..Len(f) : Required(f[i])
            /\ HasImport("List") => \E i \in 1..Len(f) : ListValued(f[i])
            /\ \A T \in {"OtherInput", "SubFilter"} :
                 (\E k \in 1..Len(_imports) : _imports[k] = package \o "." \o T)
                     => \E i \in 1..Len(f) : BaseName(f[i].type) = T

\* C7: a definition with a field whose base type the schema does not resolve
\* makes InputObjectTypeDefinition throw: no class text, whole or partial,
\* is returned.
C7_UnresolvedTypeAborts ==
    Called =>
        ((\E i \in 1..Len(result.node.fields) :
             KindOfBase(result.node.fields[i]) = "unresolved")
         => (result.kind = "threw" /\ "text" \notin DOMAIN result))

\* A call that threw on its third field, after two resolvable ones.
C7_Witness ==
    /\ result.kind = "threw"
    /\ Len(result.node.fields) = 3
    /\ KindOfBase(result.node.fields[1]) = "input"
    /\ KindOfBase(result.node.fields[2]) = "scalar"
    /\ KindOfBase(result.node.fields[3]) = "unresolved"

\* C9: a declaration made with the wrapper requested (private field,
\* constructor parameter) is "@Nonnull <Type> <name>" without Input< when the
\* field is required and "Input<<Type>> <name>" when it is optional; made
\* without the wrapper (builder setter parameter) an optional field has the
\* bare type.
C9_InputWrapperIffOptional ==
    Returned =>
        LET f == result.node.fields
            t == result.text
        IN  \A i \in 1..Len(f) :
              LET d == t.ctor.params[i]
                  setter == t.builderClass.setters[i]
              IN  /\ t.privateFields[i] = <<"private", "final">> \o d \o <<";">>
                  /\ Last(d) = f[i].name
                  /\ Required(f[i]) =>
                        /\ d[1] = "@Nonnull"
                        /\ ~HasRun(d, <<"Input<">>)
                  /\ Optional(f[i]) =>
                        /\ d[1] = "Input<"
                        /\ d[Len(d) - 1] = ">"
                        /\ ~HasRun(d, <<"@Nonnull">>)
                        /\ ~HasRun(setter, <<"Input<">>)
                        /\ HasRun(setter, <<"(", "@Nullable">> \o SubSeq(d, 2, Len(d) - 2)
                                          \o <<f[i].name, ")">>)

\* A class with a required and an optional field.
C9_Witness ==
    /\ Returned
    /\ Len(result.node.fields) = 2
    /\ result.text.privateFields[1] = <<"private", "final", "@Nonnull", "String", "id", ";">>
    /\ result.text.privateFields[2] =
           <<"private", "final", "Input<", "List<", "OtherInput", ">", ">", "tags", ";">>

\* C10: the list-writer statement of a list-valued field reads the field
\* itself (never f.value) in the null test and in the for loop when the field
\* is required, reads f.value in both when it is optional, and its per-item
\* call is the item form writeX($item).
C10_ListWriterReadsUnwrappedValue ==
    Returned =>
        LET f == result.node.fields
            st == result.text.marshallerOverride.statements
        IN  \A i \in 1..Len(f) :
              ListValued(f[i]) =>
                /\ HasRun(st[i], <<"writer", ".", "writeList", "(", Quote(f[i].name), ",">>)
                /\ \E k \in 1..(Len(st[i]) - 4) :
                      /\ st[i][k] = "listItemWriter" /\ st[i][k + 1] = "."
                      /\ st[i][k + 3] = "(" /\ st[i][k + 4] = "$item"
                /\ Required(f[i]) =>
                      /\ ~HasRun(st[i], <<f[i].name, ".value">>)
                      /\ HasRun(st[i], <<f[i].name, "!=", "null">>)
                      /\ HasRun(st[i], <<":", f[i].name, ")">>)
                /\ Optional(f[i]) =>
                      /\ HasRun(st[i], <<f[i].name, ".value", "!=", "null">>)
                      /\ HasRun(st[i], <<":", f[i].name, ".value", ")">>)

(***************************************************************************)
(* Properties of a reused visitor (SpecReuse).                             *)
(***************************************************************************)
OnlyGrows(before, after) == Range(before) \subseteq Range(after)

\* C8: the import set is empty at construction and no step removes an
\* import: each call, aborted or not, and each emission helper inside it,
\* leaves a superset of the set it found, and reading `imports` changes
\* nothing.
C8_ImportsOnlyGrow ==
    /\ _imports = <<>>
    /\ [][/\ OnlyGrows(_imports, _imports')
          /\ (returned' # returned) => (_imports' = _imports)
          /\ (calls' # calls) =>
                /\ snapshots'[1] = _imports
                /\ Last(snapshots') = _imports'
                /\ Len(snapshots') = 7
                /\ \A k \in 1..(Len(snapshots') - 1) :
                      OnlyGrows(snapshots'[k], snapshots'[k + 1])]_vars

\* A second call on the instance aborted, after adding to a set that was not
\* empty.
C8_Witness ==
    /\ calls = 2
    /\ result.kind = "threw"
    /\ snapshots[1] # <<>>
    /\ Len(_imports) > Len(snapshots[1])

====
